---- MODULE Spec2Model ----
(***************************************************************************)
(* hddmond-rs: the two device-event streams of src/scanners.               *)
(*                                                                         *)
(*   SmartCtlMonitorStream (smartctl_scanner.rs): the diff-based stream.   *)
(*     Every poll_next either drains event_queue, waits on the sleep       *)
(*     deadline, or starts / polls the spawn_blocking task that scans and  *)
(*     diffs against current_dev_names.                                    *)
(*   UdevMonitorStream (udev_scanner.rs): the socket-backed stream.        *)
(*     Every poll_next waits on the interval and then reads at most one    *)
(*     notification from the udev monitor socket.                          *)
(*                                                                         *)
(* One monitor is created per run (main.rs:23-27); `backend` says which.   *)
(* Variables that are not fields of the streams are marked "observation":  *)
(* they record what a poll did so that properties can speak about it.      *)
(***************************************************************************)
EXTENDS Integers, Sequences, FiniteSets, TLC

\* ------------------------------------------------------------------ bounds
\* Longest identifier list a scan returns.
MaxNames == 2
\* Number of probe executions a run starts.
MaxCycles == 3
\* Number of notifications that arrive on the udev socket in a run.
MaxNotifs == 2
\* The same two bounds for the runs of the fair specification LiveSpec.
LiveNames == 2
LiveCycles == 2

\* ------------------------------------------------------------ value domains
\* Device identifiers a scan can list.
DevIds == {"sda", "sdb"}

\* The value of an Option that is None (a string that did not resolve).
NoStr == "<none>"

RECURSIVE SeqsUpTo(_, _)
\* All sequences over S of length at most n.
SeqsUpTo(S, n) ==
    IF n = 0 THEN {<<>>}
    ELSE LET shorter == SeqsUpTo(S, n - 1)
         IN  shorter \cup {Append(s, x) : s \in {t \in shorter : Len(t) = n - 1}, x \in S}

Range(s) == {s[i] : i \in 1..Len(s)}

\* Orders in which a HashSet<String> over DevIds can be iterated.
IterOrders == {s \in SeqsUpTo(DevIds, Cardinality(DevIds)) :
                 Len(s) = Cardinality(DevIds) /\ Range(s) = DevIds}

\* What SmartCtl::scan() can do inside the blocking task: return Ok(list),
\* return Err, or unwind (the task then ends in a JoinError).
ScanOutcomes ==
    {[res |-> "ok", names |-> l] : l \in SeqsUpTo(DevIds, MaxNames)}
      \cup {[res |-> "err", names |-> <<>>], [res |-> "panic", names |-> <<>>]}

\* The outcomes of a scan that completes without failure.
LiveOutcomes ==
    {[res |-> "ok", names |-> l] : l \in SeqsUpTo(DevIds, LiveNames)}

\* A raw udev event as poll_next sees it: sysname().to_str(), devtype() and
\* action() each resolved to a string or to None. The sysname is any string
\* the OsStr converts to, the empty one included.
Notifications ==
    [sysname : {"sdc", "", NoStr},
     devtype : {"disk", "partition", NoStr},
     action  : {"add", "remove", "change", "unknown", NoStr}]

\* --------------------------------------------------------------- event model
\* ScanEventType. `cycle` is observation: the probe cycle the event was
\* derived in (0 for the socket-backed stream).
DeviceFound(id, c) == [type |-> "DeviceFound", id |-> id, cycle |-> c]
DeviceLost(id, c)  == [type |-> "DeviceLost", id |-> id, cycle |-> c]
Unknown(id, c)     == [type |-> "Unknown", id |-> id, cycle |-> c]
NoEvent            == [type |-> "none", id |-> NoStr, cycle |-> 0]

VARIABLES
    backend,            \* which monitor main created: "smartctl" or "udev"
    \* --- SmartCtlMonitorStream
    event_queue,        \* VecDeque<ScanEventType>
    sleep_elapsed,      \* the Sleep's deadline has passed
    smartctl_exec_fut,  \* Option<JoinHandle<DiffResult>> and the task's state
    current_dev_names,  \* HashSet<String>
    \* --- UdevMonitorStream
    interval_ready,     \* the Interval has a tick due
    socket,             \* notifications queued in the udev monitor socket
    \* --- consumer
    stream,             \* "open", "eos" (poll_next returned None), "unwound"
    woken,              \* the consumer task was woken and not polled since
    wakers,             \* the sources that hold the task's waker
    \* --- observation
    live,               \* blocking tasks started and not yet reaped
    cycles,             \* one record per probe execution that ran
    started,            \* probe executions started so far
    reaped,             \* task results taken out of the slot by a poll so far
    arrived,            \* notifications that reached the socket so far
    consumed,           \* one record per notification read from the socket
    delivered,          \* events returned to the consumer, in order
    last                \* what the latest poll_next did

vars == <<backend, event_queue, sleep_elapsed, smartctl_exec_fut, current_dev_names,
          interval_ready, socket, stream, woken, wakers, live, cycles, started,
          reaped, arrived, consumed, delivered, last>>

smartVars == <<event_queue, sleep_elapsed, smartctl_exec_fut, current_dev_names,
               live, cycles, started, reaped>>
udevVars  == <<interval_ready, socket, arrived, consumed>>

\* ------------------------------------------------- the in-flight slot values
SlotNone     == [state |-> "none", added |-> <<>>, removed |-> <<>>]
SlotRunning  == [state |-> "running", added |-> <<>>, removed |-> <<>>]
SlotFinished(a, r) == [state |-> "finished", added |-> a, removed |-> r]
SlotJoinErr  == [state |-> "joinerr", added |-> <<>>, removed |-> <<>>]
\* A JoinHandle whose output was already taken by an earlier poll.
SlotConsumed == [state |-> "consumed", added |-> <<>>, removed |-> <<>>]

\* ------------------------------------------------------- the blocking task
\* smartctl_ref.scan().unwrap_or(vec![])
ScanOrEmpty(out) == IF out.res = "ok" THEN out.names ELSE <<>>

\* Variant of NewDeviceNames that passes over the first name of the list.
NewDeviceNamesSkipsFirst(names, device_names) ==
    IF device_names = <<>> THEN <<>>
    ELSE SelectSeq(Tail(device_names), LAMBDA d : d \notin names)

\* for device_name in device_names.clone() { if !current.contains(..) push }
NewDeviceNames(names, device_names) ==
    SelectSeq(device_names, LAMBDA d : d \notin names)

\* Variant of MissingDeviceNames that stops after the first missing name.
MissingDeviceNamesFirstOnly(names, device_names, order) ==
    LET all == SelectSeq(order, LAMBDA d : d \in names /\ d \notin Range(device_names))
    IN  IF all = <<>> THEN <<>> ELSE <<Head(all)>>

\* for device_name in current.iter() { if !device_names.contains(..) push }
\* `order` is the order in which the HashSet is iterated.
MissingDeviceNames(names, device_names, order) ==
    SelectSeq(order, LAMBDA d : d \in names /\ d \notin Range(device_names))

\* Variant of UpdatedDevNames that leaves out current.extend(new).
UpdatedDevNamesNoExtend(names, new, missing) ==
    names \ Range(missing)

\* current.extend(new); for d in missing { current.remove(d) }
UpdatedDevNames(names, new, missing) ==
    (names \cup Range(new)) \ Range(missing)

\* The closure handed to spawn_blocking, run to its end: the handle's final
\* state and the last-known set it leaves behind.
ExecBody(names, out, order) ==
    IF out.res = "panic"
    THEN [slot |-> SlotJoinErr, names |-> names]
    ELSE LET device_names == ScanOrEmpty(out)
             new     == NewDeviceNames(names, device_names)
             missing == MissingDeviceNames(names, device_names, order)
         IN  [slot  |-> SlotFinished(new, missing),
              names |-> UpdatedDevNames(names, new, missing)]

\* One record of `cycles`.
CycleRecord(out, before, res) ==
    [out |-> out, before |-> before, after |-> res.names,
     added |-> res.slot.added, removed |-> res.slot.removed,
     failed |-> res.slot.state = "joinerr"]

\* Variant of Upsert that spawns a task whatever the slot holds.
UpsertAlwaysSpawns(slot) ==
    [slot |-> SlotRunning, spawned |-> TRUE]

\* ----------------------------------------------- _upsert_smartctl_exec_future
\* Returns the slot after the call and whether a task was spawned.
Upsert(slot) ==
    IF slot.state # "none"
    THEN [slot |-> slot, spawned |-> FALSE]
    ELSE [slot |-> SlotRunning, spawned |-> TRUE]

\* ------------------------------------------------------------ poll_next parts
\* Variant of EnqueueDiff with the two loops in the other order.
EnqueueDiffLostFirst(q, added, removed, c) ==
    q \o [i \in 1..Len(removed) |-> DeviceLost(removed[i], c)]
      \o [i \in 1..Len(added) |-> DeviceFound(added[i], c)]

\* The two push_back loops over r.added and r.removed.
EnqueueDiff(q, added, removed, c) ==
    q \o [i \in 1..Len(added) |-> DeviceFound(added[i], c)]
      \o [i \in 1..Len(removed) |-> DeviceLost(removed[i], c)]

\* fut_opt.take(): what the slot holds once the finished handle was taken.
\* Variant of TakeHandle that leaves the finished handle in the slot.
TakeHandleKeeps(h) == h

TakeHandle(h) == SlotNone

\* Variant of ResetSleep that leaves the Sleep at its passed deadline.
ResetSleepNot(elapsed) == elapsed

\* sleep_future.reset(now + poll_interval): whether the new deadline has
\* passed right after the reset.
ResetSleep(elapsed) == FALSE

\* The wake state a poll leaves: whether it called wake_by_ref, and the
\* sources that hold the waker when it returns. A source takes the waker
\* only when its poll returned Pending (the contract of Sleep, Interval and
\* JoinHandle); a poll of the stream uses up the wake that caused it.
Wake(self_wake, sources) ==
    /\ woken' = self_wake
    /\ wakers' = sources

\* What one poll_next reports back.
Observation(op, ret, ev, wake, read, spawn, polled, pre) ==
    [op |-> op, ret |-> ret, ev |-> ev, wake |-> wake, read |-> read,
     spawn |-> spawn, polled |-> polled, pre |-> pre]

NoPre == [elapsed |-> FALSE, queue |-> <<>>, slot |-> "none", names |-> {}]
SmartPre == [elapsed |-> sleep_elapsed, queue |-> event_queue,
             slot |-> smartctl_exec_fut.state, names |-> current_dev_names]

Init ==
    /\ backend \in {"smartctl", "udev"}
    /\ event_queue = <<>>
    /\ sleep_elapsed = FALSE
    /\ smartctl_exec_fut = SlotNone
    /\ current_dev_names = {}
    /\ interval_ready = TRUE
    /\ socket = <<>>
    /\ stream = "open"
    /\ woken = TRUE
    /\ wakers = {}
    /\ reaped = 0
    /\ live = 0
    /\ cycles = <<>>
    /\ started = 0
    /\ arrived = 0
    /\ consumed = <<>>
    /\ delivered = <<>>
    /\ last = Observation("none", "none", NoEvent, FALSE, FALSE, FALSE, FALSE, NoPre)

\* ------------------------------------------- SmartCtlMonitorStream::poll_next
\* Variant of SmartPollQueued that returns the event without wake_by_ref.
SmartPollQueuedNoWake ==
    /\ event_queue # <<>>
    /\ event_queue' = Tail(event_queue)
    /\ delivered' = Append(delivered, Head(event_queue))
    /\ last' = Observation("poll", "event", Head(event_queue), FALSE, FALSE, FALSE, FALSE,
                           SmartPre)
    /\ Wake(FALSE, wakers)
    /\ UNCHANGED <<sleep_elapsed, smartctl_exec_fut, current_dev_names, stream, live,
                   cycles, started, reaped>>

\* Lines 160-163: an event is queued.
SmartPollQueued ==
    /\ event_queue # <<>>
    /\ event_queue' = Tail(event_queue)
    /\ delivered' = Append(delivered, Head(event_queue))
    /\ last' = Observation("poll", "event", Head(event_queue), TRUE, FALSE, FALSE, FALSE,
                           SmartPre)
    /\ Wake(TRUE, wakers)
    /\ UNCHANGED <<sleep_elapsed, smartctl_exec_fut, current_dev_names, stream, live,
                   cycles, started, reaped>>

\* Variant of SmartPollSleeping that calls wake_by_ref before returning.
SmartPollSleepingWakes ==
    /\ event_queue = <<>>
    /\ ~sleep_elapsed
    /\ last' = Observation("poll", "pending", NoEvent, TRUE, FALSE, FALSE, FALSE, SmartPre)
    /\ Wake(TRUE, wakers \cup {"sleep"})
    /\ UNCHANGED <<event_queue, sleep_elapsed, smartctl_exec_fut, current_dev_names,
                   stream, live, cycles, started, reaped, delivered>>

\* Variant of SmartPollSleeping in which polling the Sleep leaves no waker
\* with the timer.
SmartPollSleepingNoWaker ==
    /\ event_queue = <<>>
    /\ ~sleep_elapsed
    /\ last' = Observation("poll", "pending", NoEvent, FALSE, FALSE, FALSE, FALSE, SmartPre)
    /\ Wake(FALSE, wakers)
    /\ UNCHANGED <<event_queue, sleep_elapsed, smartctl_exec_fut, current_dev_names,
                   stream, live, cycles, started, reaped, delivered>>

\* Lines 165-171: the queue is empty and the deadline has not passed.
SmartPollSleeping ==
    /\ event_queue = <<>>
    /\ ~sleep_elapsed
    /\ last' = Observation("poll", "pending", NoEvent, FALSE, FALSE, FALSE, FALSE, SmartPre)
    /\ Wake(FALSE, wakers \cup {"sleep"})
    /\ UNCHANGED <<event_queue, sleep_elapsed, smartctl_exec_fut, current_dev_names,
                   stream, live, cycles, started, reaped, delivered>>

\* Lines 180-227 given the handle `h` as fut.poll_unpin(cx) finds it. `names`
\* and `log` are current_dev_names and cycles at that moment, `spawned` says
\* whether this poll started the task.
SmartPollHandle(h, names, log, spawned) ==
    /\ current_dev_names' = names
    /\ cycles' = log
    /\ started' = IF spawned THEN started + 1 ELSE started
    /\ CASE h.state = "none" ->
              \* lines 183-188
              /\ sleep_elapsed' = ResetSleep(sleep_elapsed)
              /\ smartctl_exec_fut' = h
              /\ live' = live + (IF spawned THEN 1 ELSE 0)
              /\ last' = Observation("poll", "pending", NoEvent, TRUE, FALSE, spawned,
                                     FALSE, SmartPre)
              /\ Wake(TRUE, wakers)
              /\ UNCHANGED <<event_queue, delivered, stream, reaped>>
         [] h.state = "running" ->
              \* line 224
              /\ smartctl_exec_fut' = h
              /\ live' = live + (IF spawned THEN 1 ELSE 0)
              /\ last' = Observation("poll", "pending", NoEvent, FALSE, FALSE, spawned,
                                     TRUE, SmartPre)
              /\ Wake(FALSE, wakers \cup {"join"})
              /\ UNCHANGED <<event_queue, sleep_elapsed, delivered, stream, reaped>>
         [] h.state = "joinerr" ->
              \* lines 196-198: the handle stays in the slot, its output taken
              /\ smartctl_exec_fut' = SlotConsumed
              /\ live' = live + (IF spawned THEN 1 ELSE 0)
              /\ stream' = "eos"
              /\ last' = Observation("poll", "eos", NoEvent, FALSE, FALSE, spawned,
                                     TRUE, SmartPre)
              /\ Wake(FALSE, wakers \ {"join"})
              /\ UNCHANGED <<event_queue, sleep_elapsed, delivered, reaped>>
         [] h.state = "consumed" ->
              \* JoinHandle polled after completion: poll_unpin unwinds
              /\ smartctl_exec_fut' = h
              /\ live' = live + (IF spawned THEN 1 ELSE 0)
              /\ stream' = "unwound"
              /\ last' = Observation("poll", "panic", NoEvent, FALSE, FALSE, spawned,
                                     TRUE, SmartPre)
              /\ Wake(FALSE, wakers)
              /\ UNCHANGED <<event_queue, sleep_elapsed, delivered, reaped>>
         [] h.state = "finished" ->
              \* lines 200-222
              LET q == EnqueueDiff(event_queue, h.added, h.removed, Len(log))
              IN  /\ sleep_elapsed' = ResetSleep(sleep_elapsed)
                  /\ smartctl_exec_fut' = TakeHandle(h)
                  /\ live' = live + (IF spawned THEN 1 ELSE 0) - 1
                  /\ reaped' = reaped + 1
                  /\ Wake(TRUE, wakers \ {"join"})
                  /\ UNCHANGED stream
                  /\ IF q # <<>>
                     THEN /\ event_queue' = Tail(q)
                          /\ delivered' = Append(delivered, Head(q))
                          /\ last' = Observation("poll", "event", Head(q), TRUE, FALSE,
                                                 spawned, TRUE, SmartPre)
                     ELSE /\ event_queue' = q
                          /\ UNCHANGED delivered
                          /\ last' = Observation("poll", "pending", NoEvent, TRUE, FALSE,
                                                 spawned, TRUE, SmartPre)

\* Variant of SmartPollProbeWith that does not look at event_queue first.
SmartPollProbeWithQueued(outs, maxc) ==
    /\ sleep_elapsed
    /\ LET up == Upsert(smartctl_exec_fut)
       IN  /\ up.spawned => started < maxc
           /\ \/ SmartPollHandle(up.slot, current_dev_names, cycles, up.spawned)
              \/ /\ up.spawned
                 /\ \E out \in outs, order \in IterOrders :
                      LET res == ExecBody(current_dev_names, out, order)
                      IN  SmartPollHandle(res.slot, res.names,
                                          Append(cycles, CycleRecord(out, current_dev_names, res)),
                                          TRUE)

\* Lines 173-227: the queue is empty and the deadline has passed. A task
\* started by this very poll may or may not have finished on the blocking
\* pool by the time its handle is polled.
\* `outs` are the outcomes the scan can have and `maxc` the number of
\* executions a run starts.
SmartPollProbeWith(outs, maxc) ==
    /\ event_queue = <<>>
    /\ sleep_elapsed
    /\ LET up == Upsert(smartctl_exec_fut)
       IN  /\ up.spawned => started < maxc
           /\ \/ SmartPollHandle(up.slot, current_dev_names, cycles, up.spawned)
              \/ /\ up.spawned
                 /\ \E out \in outs, order \in IterOrders :
                      LET res == ExecBody(current_dev_names, out, order)
                      IN  SmartPollHandle(res.slot, res.names,
                                          Append(cycles, CycleRecord(out, current_dev_names, res)),
                                          TRUE)

SmartPollProbe == SmartPollProbeWith(ScanOutcomes, MaxCycles)

SmartPollWith(outs, maxc) ==
    /\ backend = "smartctl"
    /\ stream # "unwound"
    /\ \/ SmartPollQueued
       \/ SmartPollSleeping
       \/ SmartPollProbeWith(outs, maxc)
    /\ UNCHANGED backend
    /\ UNCHANGED udevVars

SmartPoll == SmartPollWith(ScanOutcomes, MaxCycles)

\* The blocking task runs to its end on the blocking pool, between polls.
\* Its completion wakes the task when the handle holds the waker.
ExecRunWith(outs) ==
    /\ backend = "smartctl"
    /\ smartctl_exec_fut.state = "running"
    /\ \E out \in outs, order \in IterOrders :
         LET res == ExecBody(current_dev_names, out, order)
         IN  /\ smartctl_exec_fut' = res.slot
             /\ current_dev_names' = res.names
             /\ cycles' = Append(cycles, CycleRecord(out, current_dev_names, res))
    /\ woken' = (woken \/ "join" \in wakers)
    /\ wakers' = wakers \ {"join"}
    /\ UNCHANGED <<backend, event_queue, sleep_elapsed, stream, live, started, reaped,
                   delivered, last>>
    /\ UNCHANGED udevVars

ExecRun == ExecRunWith(ScanOutcomes)

\* Time reaches the Sleep's deadline; the timer wakes the task when the
\* Sleep holds the waker.
DeadlineElapses ==
    /\ backend = "smartctl"
    /\ ~sleep_elapsed
    /\ sleep_elapsed' = TRUE
    /\ woken' = (woken \/ "sleep" \in wakers)
    /\ wakers' = wakers \ {"sleep"}
    /\ UNCHANGED <<backend, event_queue, smartctl_exec_fut, current_dev_names, stream,
                   live, cycles, started, reaped, delivered, last>>
    /\ UNCHANGED udevVars

\* ----------------------------------------------- UdevMonitorStream::poll_next
\* Variant of UdevTranslate without the devtype checks of lines 80-88.
UdevTranslateNoDevtypeFilter(n) ==
    IF n.sysname # NoStr
    THEN CASE n.action = "add" ->
                [ret |-> "event", ev |-> DeviceFound(n.sysname, 0), wake |-> TRUE]
           [] n.action = "remove" ->
                [ret |-> "event", ev |-> DeviceLost(n.sysname, 0), wake |-> TRUE]
           [] n.action = "unknown" ->
                [ret |-> "event", ev |-> Unknown(n.sysname, 0), wake |-> TRUE]
           [] OTHER ->
                [ret |-> "pending", ev |-> NoEvent, wake |-> TRUE]
    ELSE [ret |-> "pending", ev |-> NoEvent, wake |-> TRUE]

\* Lines 61-114 for the notification `n` that the socket returned: what the
\* poll returns and whether it reaches the wake_by_ref of line 112.
UdevTranslate(n) ==
    IF n.devtype = NoStr
    THEN [ret |-> "pending", ev |-> NoEvent, wake |-> FALSE]
    ELSE IF n.devtype # "disk"
    THEN [ret |-> "pending", ev |-> NoEvent, wake |-> FALSE]
    ELSE IF n.sysname # NoStr
    THEN CASE n.action = "add" ->
                [ret |-> "event", ev |-> DeviceFound(n.sysname, 0), wake |-> TRUE]
           [] n.action = "remove" ->
                [ret |-> "event", ev |-> DeviceLost(n.sysname, 0), wake |-> TRUE]
           [] n.action = "unknown" ->
                [ret |-> "event", ev |-> Unknown(n.sysname, 0), wake |-> TRUE]
           [] OTHER ->
                [ret |-> "pending", ev |-> NoEvent, wake |-> TRUE]
    ELSE [ret |-> "pending", ev |-> NoEvent, wake |-> TRUE]

UdevPre == [elapsed |-> interval_ready, queue |-> <<>>, slot |-> "none", names |-> {}]

\* Lines 40-50: the interval has no tick due.
UdevPollWaiting ==
    /\ ~interval_ready
    /\ last' = Observation("poll", "pending", NoEvent, FALSE, FALSE, FALSE, FALSE, UdevPre)
    /\ Wake(FALSE, wakers \cup {"tick"})
    /\ UNCHANGED <<interval_ready, socket, consumed, delivered>>

\* Variant of UdevPollEmpty that takes an empty socket for the end of the
\* stream.
UdevPollEmptyEndsStream ==
    /\ interval_ready
    /\ socket = <<>>
    /\ interval_ready' = FALSE
    /\ last' = Observation("poll", "eos", NoEvent, TRUE, TRUE, FALSE, FALSE, UdevPre)
    /\ Wake(TRUE, wakers)
    /\ UNCHANGED <<socket, consumed, delivered>>

\* Lines 54-57 and 112: the tick is taken and the socket has nothing queued.
UdevPollEmpty ==
    /\ interval_ready
    /\ socket = <<>>
    /\ interval_ready' = FALSE
    /\ last' = Observation("poll", "pending", NoEvent, TRUE, TRUE, FALSE, FALSE, UdevPre)
    /\ Wake(TRUE, wakers)
    /\ UNCHANGED <<socket, consumed, delivered>>

\* Lines 54-114: the tick is taken and one notification is read.
UdevPollRead ==
    /\ interval_ready
    /\ socket # <<>>
    /\ interval_ready' = FALSE
    /\ socket' = Tail(socket)
    /\ LET n == Head(socket)
           r == UdevTranslate(n)
       IN  /\ consumed' = Append(consumed, [notif |-> n, ret |-> r.ret, ev |-> r.ev,
                                            wake |-> r.wake])
           /\ delivered' = IF r.ret = "event" THEN Append(delivered, r.ev) ELSE delivered
           /\ last' = Observation("poll", r.ret, r.ev, r.wake, TRUE, FALSE, FALSE, UdevPre)
           /\ Wake(r.wake, wakers)

UdevPoll ==
    /\ backend = "udev"
    /\ \/ UdevPollWaiting
       \/ UdevPollEmpty
       \/ UdevPollRead
    /\ UNCHANGED <<backend, stream, arrived>>
    /\ UNCHANGED smartVars

\* The kernel queues one more notification on the monitor socket. The
\* socket is read with iter().next() only and is registered with no reactor,
\* so an arrival wakes nobody.
Notify ==
    /\ backend = "udev"
    /\ arrived < MaxNotifs
    /\ \E n \in Notifications : socket' = Append(socket, n)
    /\ arrived' = arrived + 1
    /\ UNCHANGED <<backend, interval_ready, consumed, stream, woken, wakers, delivered,
                   last>>
    /\ UNCHANGED smartVars

\* The interval's next tick comes due; the timer wakes the task when the
\* Interval holds the waker.
IntervalTick ==
    /\ backend = "udev"
    /\ ~interval_ready
    /\ interval_ready' = TRUE
    /\ woken' = (woken \/ "tick" \in wakers)
    /\ wakers' = wakers \ {"tick"}
    /\ UNCHANGED <<backend, socket, arrived, consumed, stream, delivered, last>>
    /\ UNCHANGED smartVars

Next ==
    \/ SmartPoll
    \/ ExecRun
    \/ DeadlineElapses
    \/ UdevPoll
    \/ Notify
    \/ IntervalTick

Spec == Init /\ [][Next]_vars

\* ------------------------------------------------ the fair diff-based stream
\* The diff-based stream driven as an executor drives it (main.rs:29): the
\* consumer polls exactly when its task has been woken, every scan returns
\* Ok, every started task runs to its end and every deadline is reached.
LiveInit == Init /\ backend = "smartctl"

LivePoll == woken /\ SmartPollWith(LiveOutcomes, LiveCycles)

LiveExecRun == ExecRunWith(LiveOutcomes)

LiveNext ==
    \/ LivePoll
    \/ LiveExecRun
    \/ DeadlineElapses

LiveSpec ==
    /\ LiveInit
    /\ [][LiveNext]_vars
    /\ WF_vars(LivePoll)
    /\ WF_vars(LiveExecRun)
    /\ WF_vars(DeadlineElapses)

\* ================================================================ properties
\* Helpers over the observation variables.
Count(s, e) == Cardinality({i \in DOMAIN s : s[i] = e})

\* The events of probe cycle c returned to the consumer so far, in order.
EventsOfCycle(c) == SelectSeq(delivered, LAMBDA e : e.cycle = c)

\* A poll has seen the result of cycle c (the c-th execution that ran).
Observed(c) ==
    \/ c < Len(cycles)
    \/ c = Len(cycles) /\ smartctl_exec_fut.state \in {"none", "running", "consumed"}

\* Cycle c was seen by a poll and none of its events is still queued.
Complete(c) ==
    /\ Observed(c)
    /\ \A i \in DOMAIN event_queue : event_queue[i].cycle # c

\* ---------------------------------------------------------------------- C1
\* C1: every completed cycle delivered exactly one DeviceFound for each
\* identifier that entered current_dev_names in it, exactly one DeviceLost
\* for each identifier that left it, and nothing else; and no identifier has
\* two DeviceFound events in `delivered` without a DeviceLost between them.
C1_ExactlyOnePerTransition ==
    backend = "smartctl" =>
      /\ \A c \in 1..Len(cycles) :
           Complete(c) =>
             LET evs  == EventsOfCycle(c)
                 rec  == cycles[c]
             IN  /\ \A id \in DevIds :
                       /\ Count(evs, DeviceFound(id, c))
                            = (IF id \in rec.after \ rec.before THEN 1 ELSE 0)
                       /\ Count(evs, DeviceLost(id, c))
                            = (IF id \in rec.before \ rec.after THEN 1 ELSE 0)
                 /\ \A i \in DOMAIN evs : evs[i].type \in {"DeviceFound", "DeviceLost"}
      /\ \A i, j \in DOMAIN delivered :
           (/\ i < j
            /\ delivered[i].type = "DeviceFound"
            /\ delivered[j].type = "DeviceFound"
            /\ delivered[i].id = delivered[j].id)
           => \E k \in (i + 1)..(j - 1) :
                 /\ delivered[k].type = "DeviceLost"
                 /\ delivered[k].id = delivered[i].id

\* ---------------------------------------------------------------------- C2
\* C2: when the scan of a cycle fails (returns Err or unwinds), the set
\* current_dev_names is the same after the cycle as before it, and once a
\* poll has seen the cycle the stream has ended and no event of that cycle
\* or of a later one is ever delivered.
C2_ScanFailureEndsStream ==
    backend = "smartctl" =>
      \A c \in 1..Len(cycles) :
        cycles[c].out.res # "ok" =>
          /\ cycles[c].after = cycles[c].before
          /\ Observed(c) =>
               /\ stream # "open"
               /\ \A i \in DOMAIN delivered : delivered[i].cycle < c
               /\ \A i \in DOMAIN event_queue : event_queue[i].cycle < c

\* ---------------------------------------------------------------------- C3
\* The events of the notifications read so far, in the order they were read.
RECURSIVE EventsRead(_)
EventsRead(log) ==
    IF log = <<>> THEN <<>>
    ELSE (IF Head(log).ret = "event" THEN <<Head(log).ev>> ELSE <<>>)
           \o EventsRead(Tail(log))

\* C3: every notification read with a resolved sysname and devtype "disk"
\* yielded DeviceFound(sysname) for action "add" and DeviceLost(sysname) for
\* action "remove"; every notification whose devtype is missing or not
\* "disk", or whose sysname did not resolve, yielded no event; every
\* notification is read once, and the events delivered are exactly the
\* events of the notifications read, at most one each.
C3_NotificationsTranslated ==
    backend = "udev" =>
      /\ \A i \in DOMAIN consumed :
           LET n == consumed[i].notif
               usable == n.sysname # NoStr /\ n.devtype = "disk"
           IN  /\ (usable /\ n.action = "add") =>
                     /\ consumed[i].ret = "event"
                     /\ consumed[i].ev = DeviceFound(n.sysname, 0)
               /\ (usable /\ n.action = "remove") =>
                     /\ consumed[i].ret = "event"
                     /\ consumed[i].ev = DeviceLost(n.sysname, 0)
               /\ ~usable => consumed[i].ret = "pending"
      /\ delivered = EventsRead(consumed)
      /\ Len(consumed) + Len(socket) = arrived

C3_Witness ==
    /\ backend = "udev"
    /\ Len(consumed) = 2
    /\ consumed[1].notif = [sysname |-> "sdc", devtype |-> "partition", action |-> "add"]
    /\ consumed[2].notif = [sysname |-> "sdc", devtype |-> "disk", action |-> "remove"]
    /\ delivered = <<DeviceLost("sdc", 0)>>

\* ---------------------------------------------------------------------- C4
\* C4: at most one blocking task exists at any time; a poll spawns one only
\* when it found the slot empty, and a poll that gets to the slot while it
\* holds a handle polls that handle and spawns nothing.
C4_AtMostOneInFlight ==
    backend = "smartctl" =>
      /\ live <= 1
      /\ last.spawn => last.pre.slot = "none"
      /\ (/\ last.op = "poll"
          /\ last.pre.queue = <<>>
          /\ last.pre.elapsed
          /\ last.pre.slot # "none") => (last.polled /\ ~last.spawn)

C4_Witness ==
    /\ backend = "smartctl"
    /\ last.op = "poll"
    /\ last.pre.slot = "running"
    /\ last.polled
    /\ ~last.spawn
    /\ live = 1
    /\ started = 1

\* ---------------------------------------------------------------------- C5
\* C5: in `delivered`, the events are in cycle order, and within one cycle
\* no DeviceFound comes after a DeviceLost.
C5_BatchOrder ==
    backend = "smartctl" =>
      \A i, j \in DOMAIN delivered :
        i < j =>
          /\ delivered[i].cycle <= delivered[j].cycle
          /\ (/\ delivered[i].cycle = delivered[j].cycle
              /\ delivered[i].type = "DeviceLost") => delivered[j].type # "DeviceFound"

C5_Witness ==
    /\ backend = "smartctl"
    /\ Len(delivered) = 3
    /\ delivered[1] = DeviceFound("sda", 1)
    /\ delivered[2] = DeviceFound("sdb", 2)
    /\ delivered[3] = DeviceLost("sda", 2)

\* ---------------------------------------------------------------------- C6
\* C6: when two consecutive cycles both scanned Ok with the same list, the
\* second one computed no added and no removed name, left
\* current_dev_names as it was, and no event of it is queued or delivered.
C6_Idempotent ==
    backend = "smartctl" =>
      \A c \in 2..Len(cycles) :
        (/\ cycles[c - 1].out.res = "ok"
         /\ cycles[c].out = cycles[c - 1].out) =>
          /\ cycles[c].added = <<>>
          /\ cycles[c].removed = <<>>
          /\ cycles[c].after = cycles[c].before
          /\ \A i \in DOMAIN delivered : delivered[i].cycle # c
          /\ \A i \in DOMAIN event_queue : event_queue[i].cycle # c

C6_Witness ==
    /\ backend = "smartctl"
    /\ Len(cycles) = 2
    /\ cycles[1].out = [res |-> "ok", names |-> <<"sda", "sda">>]
    /\ cycles[2].out = cycles[1].out
    /\ Complete(2)
    /\ last.op = "poll" /\ last.polled /\ last.ret = "pending" /\ last.wake

\* ---------------------------------------------------------------------- C7
\* C7: a cycle whose scan returned Ok with an empty list leaves
\* current_dev_names empty; once the cycle is complete exactly one
\* DeviceLost per name of the previous set, and no DeviceFound, was
\* delivered for it; and an event of a later cycle is delivered only after
\* all of them.
C7_FullLoss ==
    backend = "smartctl" =>
      \A c \in 1..Len(cycles) :
        (cycles[c].out.res = "ok" /\ cycles[c].out.names = <<>>) =>
          LET evs == EventsOfCycle(c)
              S   == cycles[c].before
          IN  /\ cycles[c].after = {}
              /\ \A i \in DOMAIN evs : evs[i].type = "DeviceLost" /\ evs[i].id \in S
              /\ \A id \in S : Count(evs, DeviceLost(id, c)) <= 1
              /\ Complete(c) => \A id \in S : Count(evs, DeviceLost(id, c)) = 1
              /\ (\E i \in DOMAIN delivered : delivered[i].cycle > c) =>
                   /\ Complete(c)
                   /\ \A i, j \in DOMAIN delivered :
                        (delivered[i].cycle = c /\ delivered[j].cycle > c) => i < j

C7_Witness ==
    /\ backend = "smartctl"
    /\ Len(cycles) = 3
    /\ cycles[2].before = {"sda", "sdb"}
    /\ cycles[2].out = [res |-> "ok", names |-> <<>>]
    /\ Complete(2)
    /\ \E i \in DOMAIN delivered : delivered[i].cycle = 3

\* ---------------------------------------------------------------------- C8
\* Every scan so far returned Ok with a list that names no device twice.
ScansWellFormed ==
    \A c \in 1..Len(cycles) :
      /\ cycles[c].out.res = "ok"
      /\ \A i, j \in DOMAIN cycles[c].out.names :
           cycles[c].out.names[i] = cycles[c].out.names[j] => i = j

\* C8 as stated: a poll made while the interval / deadline has not elapsed
\* and the slot is empty reads no notification, starts and polls no task,
\* returns Pending and does not call wake_by_ref. It is stated for runs in
\* which every scan was well formed, so that what refutes it is the queue
\* draining of lines 160-163 alone.
C8_IdlePollDoesNothing ==
    (/\ ScansWellFormed
     /\ last.op = "poll"
     /\ ~last.pre.elapsed
     /\ last.pre.slot = "none") =>
      /\ ~last.read
      /\ ~last.spawn
      /\ ~last.polled
      /\ last.ret = "pending"
      /\ ~last.wake

\* C8 as amended: the same, for polls made while event_queue is empty.
C8_IdlePollDoesNothingWhenQueueEmpty ==
    (/\ last.op = "poll"
     /\ ~last.pre.elapsed
     /\ last.pre.slot = "none"
     /\ last.pre.queue = <<>>) =>
      /\ ~last.read
      /\ ~last.spawn
      /\ ~last.polled
      /\ last.ret = "pending"
      /\ ~last.wake

C8_Witness ==
    /\ backend = "smartctl"
    /\ last.op = "poll"
    /\ ~last.pre.elapsed
    /\ last.pre.slot = "none"
    /\ last.pre.queue = <<>>
    /\ last.pre.names # {}
    /\ last.ret = "pending"

\* ---------------------------------------------------------------------- C9
\* C9: every poll of the udev stream that read the socket called
\* wake_by_ref before it returned.
C9_ReadAlwaysSelfWakes ==
    (backend = "udev" /\ last.op = "poll" /\ last.read) => last.wake

\* --------------------------------------------------------------------- C10
\* C10: a notification read with a resolved sysname, devtype "disk" and a
\* resolved action other than "add" and "remove" yielded Unknown(sysname).
C10_OtherActionsYieldUnknown ==
    backend = "udev" =>
      \A i \in DOMAIN consumed :
        LET n == consumed[i].notif
        IN  (/\ n.sysname # NoStr
             /\ n.devtype = "disk"
             /\ n.action \notin {"add", "remove", NoStr}) =>
              /\ consumed[i].ret = "event"
              /\ consumed[i].ev = Unknown(n.sysname, 0)

\* --------------------------------------------------------------------- C11
\* C11: a poll returns None only on the smartctl stream and only when it
\* polled a handle whose task had ended in a JoinError (the latest execution
\* that ran); the udev stream never returns None and stays open.
C11_EndOfStreamOnlyOnFailedExecution ==
    /\ (last.ret = "eos" \/ stream = "eos") =>
         /\ backend = "smartctl"
         /\ cycles # <<>>
         /\ cycles[Len(cycles)].failed
    /\ last.ret = "eos" =>
         /\ last.polled
         /\ last.pre.queue = <<>>
         /\ last.pre.elapsed
    /\ backend = "udev" => (stream = "open" /\ last.ret # "eos")

C11_Witness ==
    /\ backend = "smartctl"
    /\ last.ret = "eos"
    /\ stream = "eos"
    /\ Len(cycles) = 2
    /\ delivered # <<>>

\* --------------------------------------------------------------------- C12
\* C12: no event returned to the consumer, and none queued, carries the
\* empty string as its identifier; a notification whose sysname is the empty
\* string yields no event.
C12_NoEmptyIdentifier ==
    /\ \A i \in DOMAIN delivered : delivered[i].id # ""
    /\ \A i \in DOMAIN event_queue : event_queue[i].id # ""
    /\ \A i \in DOMAIN consumed :
         consumed[i].notif.sysname = "" => consumed[i].ret = "pending"

\* --------------------------------------------------------------------- C13
\* C13: the udev stream never leaves a disk add / remove notification
\* queued in the socket with the consumer task neither woken nor due to be
\* woken by the interval (no poll returned Pending without a self-wake or a
\* registered waker), so that a task polled whenever it is woken reads and
\* delivers it.
C13_QueuedNotificationHasWakeup ==
    (/\ backend = "udev"
     /\ \E i \in DOMAIN socket :
          /\ socket[i].sysname = "sdc"
          /\ socket[i].devtype = "disk"
          /\ socket[i].action \in {"add", "remove"})
    => (woken \/ "tick" \in wakers)

\* --------------------------------------------------------------------- C14
\* A wake source that will still fire: the self-wake (or a wake already
\* delivered), the timer while the deadline is ahead, or the JoinHandle
\* while the task runs.
WakeSourceLeft ==
    \/ woken
    \/ "sleep" \in wakers /\ ~sleep_elapsed
    \/ "join" \in wakers /\ smartctl_exec_fut.state = "running"

\* C14: in the diff-based stream polled only when woken, with scans that
\* succeed, tasks that finish and deadlines that are reached: every poll
\* that returned not-ready asked for a self-wake or left the timer (deadline
\* ahead) or the task (still running) holding the waker; every event that is
\* queued is eventually delivered; and as long as the run may start another
\* execution, another one is eventually started.
C14_NoLostWakeup ==
    /\ [](stream = "open" => WakeSourceLeft)
    /\ [](last.ret = "pending" /\ ~last.wake =>
            \/ ~last.pre.elapsed /\ (woken \/ "sleep" \in wakers \/ sleep_elapsed)
            \/ last.polled /\ (woken \/ "join" \in wakers))
    /\ \A n \in 1..(2 * LiveNames * LiveCycles) :
         (Len(delivered) + Len(event_queue) >= n) ~> (Len(delivered) >= n)
    /\ \A n \in 0..(LiveCycles - 1) : (started = n) ~> (started = n + 1)

\* A poll found the deadline ahead and registered with the timer, the timer
\* woke the task, and a later poll found the second task still running.
C14_Witness ==
    /\ backend = "smartctl"
    /\ started = 2 /\ reaped = 1
    /\ last.ret = "pending" /\ ~last.wake /\ last.polled
    /\ ~woken /\ wakers = {"join"}
    /\ delivered # <<>>

\* --------------------------------------------------------------------- C15
\* Every event of probe cycle c that a poll has enqueued, delivered or not.
EnqueuedOfCycle(c) == SelectSeq(delivered \o event_queue, LAMBDA e : e.cycle = c)

\* The events the result of cycle c stands for.
ResultEvents(c) == EnqueueDiff(<<>>, cycles[c].added, cycles[c].removed, c)

\* C15: the result of every execution that completed without a JoinError
\* is enqueued exactly once: while its finished handle sits in the slot none
\* of its events exists, once a poll has taken it exactly its events exist
\* (never a second copy) and the slot no longer holds it; the number of
\* results taken is the number of such executions observed; and an
\* execution is followed by another only after its result was enqueued.
C15_ResultConsumedOnce ==
    backend = "smartctl" =>
      /\ \A c \in DOMAIN cycles :
           ~cycles[c].failed =>
             IF c = Len(cycles) /\ smartctl_exec_fut.state = "finished"
             THEN /\ EnqueuedOfCycle(c) = <<>>
                  /\ smartctl_exec_fut.added = cycles[c].added
                  /\ smartctl_exec_fut.removed = cycles[c].removed
             ELSE EnqueuedOfCycle(c) = ResultEvents(c)
      /\ smartctl_exec_fut.state = "finished" => cycles # <<>>
      /\ reaped = Cardinality({c \in DOMAIN cycles : ~cycles[c].failed})
                    - (IF smartctl_exec_fut.state = "finished" THEN 1 ELSE 0)
      /\ \A i \in DOMAIN delivered : delivered[i].cycle \in DOMAIN cycles
      /\ \A i \in DOMAIN event_queue : event_queue[i].cycle \in DOMAIN cycles

\* The first result was taken and enqueued, a second execution has finished
\* with a non-empty result that no poll has seen yet.
C15_Witness ==
    /\ backend = "smartctl"
    /\ Len(cycles) = 2 /\ reaped = 1
    /\ cycles[1].added # <<>>
    /\ EnqueuedOfCycle(1) = ResultEvents(1)
    /\ smartctl_exec_fut.state = "finished"
    /\ smartctl_exec_fut.removed # <<>>

\* --------------------------------------------------------------------- C16
\* C16: current_dev_names is empty until the first execution has run, and
\* afterwards it is what the latest execution left; an execution whose scan
\* returned Ok(list) leaves exactly the distinct identifiers of the list
\* (its previous set plus added minus removed), and an execution whose scan
\* did not succeed leaves the set as it found it.
C16_SetFollowsSuccessfulProbes ==
    backend = "smartctl" =>
      /\ cycles = <<>> => current_dev_names = {}
      /\ cycles # <<>> => current_dev_names = cycles[Len(cycles)].after
      /\ \A c \in DOMAIN cycles :
           /\ cycles[c].before = (IF c = 1 THEN {} ELSE cycles[c - 1].after)
           /\ IF cycles[c].out.res = "ok"
              THEN /\ cycles[c].after = Range(cycles[c].out.names)
                   /\ cycles[c].after =
                        (cycles[c].before \cup Range(cycles[c].added))
                          \ Range(cycles[c].removed)
              ELSE cycles[c].after = cycles[c].before

\* --------------------------------------------------------------------- C17
\* C17: a step that starts an execution is a poll that found the deadline
\* passed; a step that takes a finished execution's result leaves the Sleep
\* reset (deadline ahead); and the deadline passes only by time going by,
\* never in a poll: so between taking one result and starting the next
\* execution the reset deadline is reached.
C17_IntervalBetweenProbes ==
    [][/\ started' > started =>
            /\ sleep_elapsed
            /\ last'.spawn /\ last'.pre.elapsed
       /\ reaped' > reaped =>
            /\ ~sleep_elapsed'
            /\ last'.polled /\ last'.wake
       /\ (~sleep_elapsed /\ sleep_elapsed') =>
            /\ started' = started /\ reaped' = reaped
            /\ last' = last]_vars

\* A second execution was started after the first one's result was taken
\* and the deadline that poll had reset was reached.
C17_Witness ==
    /\ backend = "smartctl"
    /\ started = 2 /\ reaped = 1
    /\ last.spawn /\ last.pre.elapsed
    /\ smartctl_exec_fut.state = "running"

\* --------------------------------------------------------------------- C18
\* C18: between polls, while the slot holds an execution (running, finished
\* or failed) event_queue is empty; and a poll that starts an execution
\* found the queue empty, with every event of every earlier cycle delivered.
C18_InFlightImpliesEmptyQueue ==
    backend = "smartctl" =>
      /\ smartctl_exec_fut.state # "none" => event_queue = <<>>
      /\ last.spawn => last.pre.queue = <<>>
      /\ \A c \in DOMAIN cycles :
           (c < Len(cycles) \/ smartctl_exec_fut.state \in {"running", "finished"})
             => \A k \in 1..(c - 1) :
                  /\ Complete(k)
                  /\ EventsOfCycle(k) = ResultEvents(k)

\* A second execution is in flight after a first one whose events (two of
\* them) were all delivered.
C18_Witness ==
    /\ backend = "smartctl"
    /\ Len(cycles) = 1 /\ started = 2
    /\ smartctl_exec_fut.state = "running"
    /\ Len(EventsOfCycle(1)) = 2
    /\ event_queue = <<>>

\* --------------------------------------------------------------------- C19
\* C19: a poll of the diff-based stream made while event_queue is non-empty
\* returns the head of the queue and calls wake_by_ref; the queue loses
\* just its head; sleep_future, the slot and current_dev_names keep their
\* values; the poll polls neither the Sleep (no waker is registered) nor a
\* task, and spawns none.
C19_QueuedPollDeliversHead ==
    [][(/\ backend = "smartctl"
        /\ event_queue # <<>>
        /\ (last' # last \/ delivered' # delivered \/ woken' # woken)) =>
          /\ delivered' = Append(delivered, Head(event_queue))
          /\ event_queue' = Tail(event_queue)
          /\ last'.op = "poll" /\ last'.ret = "event"
          /\ last'.ev = Head(event_queue)
          /\ last'.wake /\ woken'
          /\ ~last'.spawn /\ ~last'.polled
          /\ wakers' = wakers
          /\ UNCHANGED <<sleep_elapsed, smartctl_exec_fut, current_dev_names,
                         cycles, started, reaped, live, stream>>]_vars

\* Such a poll has happened: it returned the first of a cycle's events with
\* another one still queued behind it, the deadline still ahead.
C19_Witness ==
    /\ backend = "smartctl"
    /\ last.op = "poll" /\ last.pre.queue # <<>>
    /\ Len(last.pre.queue) = 2
    /\ last.ev = Head(last.pre.queue)
    /\ event_queue = Tail(last.pre.queue)
    /\ ~sleep_elapsed

\* --------------------------------------------------------------------- C20
\* Cycle c is the first whose scan returned Ok.
FirstSuccessful(c) ==
    /\ c \in DOMAIN cycles
    /\ cycles[c].out.res = "ok"
    /\ \A k \in 1..(c - 1) : cycles[k].out.res # "ok"

\* C20: the stream is created with the deadline ahead and no execution
\* started, the first execution is started by a poll that found the
\* deadline passed, and the first cycle whose scan returned Ok found
\* current_dev_names empty and, once its events are delivered, has
\* delivered a DeviceFound for every identifier of the scanned list, events
\* for those identifiers only, and no DeviceLost.
C20_FirstCycleFindsAll ==
    /\ (backend = "smartctl" => ~sleep_elapsed /\ started = 0)
    /\ [][(started = 0 /\ started' > 0) =>
            sleep_elapsed /\ last'.spawn /\ last'.pre.elapsed]_vars
    /\ [](\A c \in DOMAIN cycles :
            FirstSuccessful(c) =>
              /\ cycles[c].before = {}
              /\ cycles[c].removed = <<>>
              /\ Complete(c) =>
                   /\ \A id \in Range(cycles[c].out.names) :
                        Count(EventsOfCycle(c), DeviceFound(id, c)) >= 1
                   /\ \A i \in DOMAIN delivered :
                        delivered[i].cycle = c =>
                          /\ delivered[i].type = "DeviceFound"
                          /\ delivered[i].id \in Range(cycles[c].out.names))

\* The first scan failed, the second returned two identifiers and both
\* DeviceFound events were delivered.
C20_Witness ==
    /\ backend = "smartctl"
    /\ Len(cycles) >= 2
    /\ cycles[1].out.res = "err"
    /\ FirstSuccessful(2)
    /\ Cardinality(Range(cycles[2].out.names)) = 2
    /\ Complete(2)
    /\ Len(EventsOfCycle(2)) = 2
====
